---- MODULE Spec2Model ----
(***************************************************************************)
(* The Adobe Lightroom integration client of the photo store backend       *)
(* (services/adobe-lightroom.js): the token store (memory mirror and       *)
(* adobe-tokens.json), the OAuth code exchange and refresh, the            *)
(* authenticated request executor makeRequest, getRendition and getPhotos. *)
(*                                                                         *)
(* Node runs one callback at a time, so each action below is one callback  *)
(* run to its next suspension point (the next outbound HTTP request or the *)
(* settlement of the operation's promise).  Requests in flight are the     *)
(* call records whose pc names what they wait for; the provider's and the  *)
(* catalog API's answers are chosen nondeterministically when they arrive. *)
(*                                                                         *)
(* Time is counted in minutes.  Tokens are numbered in the order the       *)
(* provider issues them; 0 stands for null/undefined.                      *)
(***************************************************************************)
EXTENDS Integers, Sequences, FiniteSets, TLC

\* ---------------------------------------------------------------- bounds
MaxTime == 7          \* the clock stops advancing here
MaxIssued == 3        \* token responses the provider grants in one run
Max401 == 2           \* 401 answers the catalog API gives to one call
TokenLifetime == 6    \* expires_in of a granted token, minutes (above Horizon)
MaxClears == 2        \* consecutive clearTokens calls that are counted

\* ------------------------------------------------------ program constants
Horizon == 5          \* 5 * 60 * 1000 ms, in minutes
NoToken == 0          \* null access/refresh token
NoExpiry == -1        \* null tokenExpiresAt
DefaultPrice == 10    \* options.defaultPrice || 10
DefaultLimit == 100   \* limit: options.limit || 100

Calls == {1, 2}       \* logically concurrent callers of the singleton service

VARIABLES
    accessToken,      \* this.accessToken
    refreshToken,     \* this.refreshToken
    tokenExpiresAt,   \* this.tokenExpiresAt
    tokensFile,       \* contents of TOKENS_FILE (adobe-tokens.json)
    clientId,         \* this.clientId is set
    clientSecret,     \* this.clientSecret is set
    now,              \* Date.now()
    issued,           \* number of token responses the provider has granted
    calls,            \* the operations in flight, one record per caller
    hist              \* history: the arguments of the saveTokens call that wrote
                      \* the file, whether the mirror is as loadTokens left it,
                      \* and the number of clearTokens calls made in a row

vars == <<accessToken, refreshToken, tokenExpiresAt, tokensFile, clientId,
          clientSecret, now, issued, calls, hist>>

\* ------------------------------------------------------------ token store
NoFile ==
    [exists |-> FALSE, accessToken |-> NoToken, refreshToken |-> NoToken,
     tokenExpiresAt |-> NoExpiry, updatedAt |-> NoExpiry]

\* The service's token state: the in-memory mirror and the file.
Svc(a, r, e, f) ==
    [accessToken |-> a, refreshToken |-> r, tokenExpiresAt |-> e, file |-> f]

CurSvc == Svc(accessToken, refreshToken, tokenExpiresAt, tokensFile)

\* new Date() > new Date(tokenExpiresAt)
Expired(exp, t) == exp # NoExpiry /\ t > exp

\* Mutant of loadTokens: an expired record loads neither token.
loadTokens_DropsBoth(file, t) ==
    IF file.exists
    THEN Svc(IF Expired(file.tokenExpiresAt, t) THEN NoToken ELSE file.accessToken,
             IF Expired(file.tokenExpiresAt, t) THEN NoToken ELSE file.refreshToken,
             file.tokenExpiresAt, file)
    ELSE Svc(NoToken, NoToken, NoExpiry, file)

\* loadTokens(): run by the constructor on a fresh instance (all fields null).
loadTokens(file, t) ==
    IF file.exists
    THEN Svc(IF Expired(file.tokenExpiresAt, t) THEN NoToken ELSE file.accessToken,
             file.refreshToken, file.tokenExpiresAt, file)
    ELSE Svc(NoToken, NoToken, NoExpiry, file)

\* Mutant of saveTokens: the mirror is assigned before the file is written.
saveTokens_MirrorFirst(s, a, r, expiresIn, t, diskOk) ==
    LET exp == IF expiresIn # 0 THEN t + expiresIn ELSE NoExpiry
        data == [exists |-> TRUE, accessToken |-> a, refreshToken |-> r,
                 tokenExpiresAt |-> exp, updatedAt |-> t]
    IN  IF diskOk
        THEN [s |-> Svc(a, r, exp, data), threw |-> FALSE]
        ELSE [s |-> Svc(a, r, exp, s.file), threw |-> TRUE]

\* saveTokens(accessToken, refreshToken, expiresIn): writeFileSync first, then
\* the mirror; a failing write throws before anything is assigned.
saveTokens(s, a, r, expiresIn, t, diskOk) ==
    LET exp == IF expiresIn # 0 THEN t + expiresIn ELSE NoExpiry
        data == [exists |-> TRUE, accessToken |-> a, refreshToken |-> r,
                 tokenExpiresAt |-> exp, updatedAt |-> t]
    IN  IF diskOk
        THEN [s |-> Svc(a, r, exp, data), threw |-> FALSE]
        ELSE [s |-> s, threw |-> TRUE]

\* The arguments of a saveTokens call, and the time it was made.
SaveArgs(a, r, expiresIn, t) == [a |-> a, r |-> r, expiresIn |-> expiresIn, at |-> t]
NoSave == SaveArgs(NoToken, NoToken, 0, NoExpiry)

\* Mutant of clearTokens: the refresh token is not nulled.
clearTokens_LeavesRefresh(s, diskOk) ==
    IF s.file.exists /\ ~diskOk
    THEN s
    ELSE Svc(NoToken, s.refreshToken, NoExpiry, NoFile)

\* Mutant of clearTokens: the mirror is nulled even when the unlink failed.
clearTokens_NullsAnyway(s, diskOk) ==
    IF s.file.exists /\ ~diskOk
    THEN Svc(NoToken, NoToken, NoExpiry, s.file)
    ELSE Svc(NoToken, NoToken, NoExpiry, NoFile)

\* clearTokens(): unlinkSync, then the mirror; a failing unlink is caught and
\* leaves the mirror as it was.
clearTokens(s, diskOk) ==
    IF s.file.exists /\ ~diskOk
    THEN s
    ELSE Svc(NoToken, NoToken, NoExpiry, NoFile)

\* Mutant of isConnected: only the access token counts.
isConnected_AccessOnly(s) == s.accessToken # NoToken

\* isConnected()
isConnected(s) == s.accessToken # NoToken \/ s.refreshToken # NoToken

\* ------------------------------------------------------- provider answers
\* What the token endpoint can answer: a grant (with or without a new refresh
\* token, with or without expires_in), a body with an error field, a body
\* that does not parse, or a transport error.  diskOk is whether the write of
\* the tokens file succeeds when the grant is saved.
TokenOutcomes ==
    {[kind |-> k, access |-> NoToken, refresh |-> NoToken, expiresIn |-> 0,
      diskOk |-> TRUE] : k \in {"error", "garbage", "neterr"}}
    \cup
    (IF issued < MaxIssued
     THEN {[kind |-> "ok", access |-> issued + 1, refresh |-> r,
            expiresIn |-> e, diskOk |-> d] :
              r \in {NoToken, issued + 1}, e \in {0, TokenLifetime},
              d \in BOOLEAN}
     ELSE {})

\* ------------------------------------------------------------ call records
\* A response body of the catalog API as makeRequest hands it on: the parsed
\* JSON value (its id and resources, when it has them) or the raw text.
\* res: "none" no resources field, "list" an array (items), "bad" another value.
TextBody == [kind |-> "text", id |-> 0, res |-> "none", items |-> <<>>]
JsonBody(id, res, items) == [kind |-> "json", id |-> id, res |-> res, items |-> items]
NoBody == [kind |-> "none", id |-> 0, res |-> "none", items |-> <<>>]

\* getPhotos options; 0, <<>> and -1 stand for an option that is not given.
NoOpts == [albumId |-> 0, albumName |-> <<>>, minRating |-> -1, limit |-> 0]

\* op        the public operation the caller invoked
\* pc        what the call waits for, or how it settled
\* log       what happened so far, each entry with the endpoint of the request
\*           it belongs to: "r+"/"r-" a refresh granted/failed; "401", "200"
\*           (JSON body), "200text" (body not JSON), "err" (other status), "net"
\*           (transport error) the answer to a dispatch; "thrown" an exception
\*           caught by getPhotos
\* sent      the bearer token of the last dispatch
\* rt        the refresh token of the last refresh call
\* granted   the access token of the last grant this call received
\* resp      the body of the last 2xx answer
\* endpoint  the endpoint of the current request
\* code      the authorization code given to exchangeCodeForToken
\* connected what isConnected() returned to GET /api/adobe/status
\* newRt     the refresh_token of the last token response (NoToken: none)
\* prevRt    the refresh token held when the answer to a code exchange arrived
\* limit     the limit parameter of the asset request
\* data      the text of the last 2xx answer, when the step spelled it out
\*           (hasData), and value, what makeRequest resolved with for it: the
\*           JSON document parsed, or the text
\* query     the GraphQL photos resolver is the caller
\* answer    what the photos resolver returned: "adobe" the list of getPhotos,
\*           "local" the list of photos.json, "empty" the empty list
IdleCall ==
    [op |-> "idle", pc |-> "idle", log |-> <<>>, sent |-> NoToken,
     rt |-> NoToken, err |-> "none", body |-> NoBody, granted |-> NoToken,
     resp |-> NoBody, endpoint |-> "none", code |-> 0, opts |-> NoOpts,
     catalogId |-> 0, albumId |-> 0, photos |-> <<>>, connected |-> FALSE,
     newRt |-> NoToken, query |-> FALSE, answer |-> "none", limit |-> 0,
     hasData |-> FALSE, data |-> <<>>, value |-> <<>>, prevRt |-> NoToken]

Evs(k) == [i \in 1..Len(k.log) |-> k.log[i].ev]

Settled(k) == k.pc \in {"resolved", "rejected"}

\* Number of catalog/rendition dispatches and of refresh calls of a call.
IsApiOutcome(x) == x \in {"401", "200", "200text", "err", "net"}
IsRefreshOutcome(x) == x \in {"r+", "r-"}
NDispatch(k) ==
    Cardinality({i \in 1..Len(k.log) : IsApiOutcome(k.log[i].ev)})
    + (IF k.pc = "dispatched" THEN 1 ELSE 0)
NRefresh(k) ==
    Cardinality({i \in 1..Len(k.log) : IsRefreshOutcome(k.log[i].ev)})
    + (IF k.pc \in {"preRefresh", "missRefresh", "retryRefresh", "tokenPost"}
          /\ k.op # "exchange" THEN 1 ELSE 0)

St(s, k) == [s |-> s, k |-> k]

Logged(k, x) == [k EXCEPT !.log = Append(@, [ev |-> x, ep |-> k.endpoint])]

\* --------------------------------------------------------------- getPhotos
\* String.prototype.toLowerCase and trim, on strings as sequences of characters.
LowerChar(ch) ==
    CASE ch = "E" -> "e"
      [] ch = "U" -> "u"
      [] ch = "W" -> "w"
      [] ch = "H" -> "h"
      [] ch = "I" -> "i"
      [] ch = "L" -> "l"
      [] OTHER -> ch

toLowerCase(str) == [i \in 1..Len(str) |-> LowerChar(str[i])]

RECURSIVE trimStart(_)
trimStart(str) ==
    IF str # <<>> /\ Head(str) = " " THEN trimStart(Tail(str)) ELSE str

RECURSIVE trimEnd(_)
trimEnd(str) ==
    IF str # <<>> /\ str[Len(str)] = " "
    THEN trimEnd(SubSeq(str, 1, Len(str) - 1))
    ELSE str

\* Mutant of trim: only leading white space is removed.
trim_StartOnly(str) == trimStart(str)

trim(str) == trimEnd(trimStart(str))

\* Mutant of findAlbum: the first album stands in when none has the name.
RECURSIVE findAlbum_DefaultsToFirst(_, _, _)
findAlbum_DefaultsToFirst(albums, name, i) ==
    IF i > Len(albums) THEN (IF albums = <<>> THEN 0 ELSE 1)
    ELSE IF toLowerCase(trim(albums[i].name)) = name THEN i
    ELSE findAlbum_DefaultsToFirst(albums, name, i + 1)

\* albumsResponse.resources.find((a) => (a.payload?.name || "").trim().toLowerCase() === name):
\* the index of the first match, 0 when there is none.
RECURSIVE findAlbum(_, _, _)
findAlbum(albums, name, i) ==
    IF i > Len(albums) THEN 0
    ELSE IF toLowerCase(trim(albums[i].name)) = name THEN i
    ELSE findAlbum(albums, name, i + 1)

\* Mutant of ratingValue: || in place of ??, so that a userRating of 0 gives
\* way to the rating.
ratingValue_OrFallback(asset) ==
    IF asset.userRating # -1 /\ asset.userRating # 0 THEN asset.userRating
    ELSE IF asset.rating # -1 /\ asset.rating # 0 THEN asset.rating
    ELSE 0

\* asset.payload?.userRating ?? asset.payload?.rating ?? 0  (-1: null/undefined)
ratingValue(asset) ==
    IF asset.userRating # -1 THEN asset.userRating
    ELSE IF asset.rating # -1 THEN asset.rating
    ELSE 0

\* assets.resources.filter((a) => ratingValue(a) >= minRating)
RECURSIVE filterRating(_, _)
filterRating(assets, minRating) ==
    IF assets = <<>> THEN <<>>
    ELSE IF ratingValue(Head(assets)) >= minRating
         THEN <<Head(assets)>> \o filterRating(Tail(assets), minRating)
         ELSE filterRating(Tail(assets), minRating)

\* The Photo built from one asset: the url is the proxy path.
toPhoto(asset, index, catalogId) ==
    [id |-> IF asset.id # 0 THEN <<"asset", asset.id>> ELSE <<"adobe", index>>,
     url |-> IF asset.id # 0
             THEN <<"/api/adobe/rendition", catalogId, asset.id, "type=2048">>
             ELSE <<>>,
     price |-> DefaultPrice,
     catalogId |-> catalogId]

\* getPhotos's catch block, and every return []: the promise resolves with [].
GPEmpty(s, k) == St(s, [k EXCEPT !.pc = "resolved", !.photos = <<>>])

\* --------------------------------------------------------------- makeRequest
\* Mutant of MRReject: getPhotos without its try/catch.
MRReject_Propagates(s, k, err) ==
    St(s, [k EXCEPT !.pc = "rejected", !.err = err])

\* reject(...) / throw of makeRequest: to the caller, or into getPhotos's catch.
MRReject(s, k, err) ==
    IF k.op = "getPhotos"
    THEN GPEmpty(s, Logged(k, "thrown"))
    ELSE St(s, [k EXCEPT !.pc = "rejected", !.err = err])

\* Mutant of MRDispatch: a retry reuses the header of the first dispatch.
MRDispatch_OldHeader(s, k) ==
    St(s, [k EXCEPT !.pc = "dispatched",
                    !.sent = IF k.sent # NoToken THEN k.sent ELSE s.accessToken])

\* The dispatch: the request carries Bearer this.accessToken.
MRDispatch(s, k) ==
    St(s, [k EXCEPT !.pc = "dispatched", !.sent = s.accessToken])

\* if (!this.accessToken) throw ...; then the dispatch.
MRTokenCheck(s, k) ==
    IF s.accessToken = NoToken
    THEN MRReject(s, k, "authenticate")
    ELSE MRDispatch(s, k)

\* Mutant of MRMissing: no refresh attempt when the access token is missing.
MRMissing_NoRefresh(s, k) == MRTokenCheck(s, k)

\* Try to refresh token if missing.
MRMissing(s, k) ==
    IF s.accessToken = NoToken /\ s.refreshToken # NoToken
    THEN St(s, [k EXCEPT !.pc = "missRefresh", !.rt = s.refreshToken])
    ELSE MRTokenCheck(s, k)

\* Mutant of ExpiringSoon: only a token already expired is refreshed.
ExpiringSoon_NoHorizon(exp, t) == t >= exp

\* now >= expiresAt || expiresAt - now < 5 * 60 * 1000
ExpiringSoon(exp, t) == t >= exp \/ exp - t < Horizon

\* makeRequest from its entry to its first suspension point.
MREnter(s, k, t) ==
    IF s.accessToken # NoToken /\ s.tokenExpiresAt # NoExpiry
       /\ ExpiringSoon(s.tokenExpiresAt, t)
    THEN IF s.refreshToken # NoToken
         THEN St(s, [k EXCEPT !.pc = "preRefresh", !.rt = s.refreshToken])
         ELSE MRMissing([s EXCEPT !.accessToken = NoToken], k)
    ELSE MRMissing(s, k)

\* Mutant of getAssets: the catalog is looked up again (as getAlbums does
\* when it is given no catalog id) before the assets are requested.
getAssets_CatalogAgain(s, k, t) ==
    MREnter(s, [k EXCEPT !.endpoint = "catalog"], t)

\* getAssets(catalogId, fetchOptions): the album's endpoint when albumId is set.
getAssets(s, k, t) ==
    MREnter(s, [k EXCEPT !.endpoint =
                   IF k.albumId # 0 THEN "albumAssets" ELSE "assets",
                         !.limit =
                   IF k.opts.limit # 0 THEN k.opts.limit ELSE DefaultLimit], t)

\* Mutant of GPMap: the url is Adobe's rendition link with the bearer token.
GPMap_BearerUrl(s, k, kept) ==
    St(s, [k EXCEPT !.pc = "resolved",
                    !.photos = [i \in 1..Len(kept) |->
                       [toPhoto(kept[i], i, k.catalogId) EXCEPT
                          !.url = IF kept[i].id # 0
                                  THEN <<"https://lr.adobe.io/v2/catalogs",
                                         k.catalogId, kept[i].id, s.accessToken>>
                                  ELSE <<>>]]])

\* return assets.resources.map((asset, index) => photo)
GPMap(s, k, kept) ==
    St(s, [k EXCEPT !.pc = "resolved",
                    !.photos = [i \in 1..Len(kept) |->
                                   toPhoto(kept[i], i, k.catalogId)]])

\* getPhotos after one of its requests resolved with body.
GPContinue(s, k, body, t) ==
    CASE k.endpoint = "catalog" ->
            IF body.kind # "json" \/ body.id = 0
            THEN GPEmpty(s, k)
            ELSE LET k1 == [k EXCEPT !.catalogId = body.id,
                                     !.albumId = k.opts.albumId]
                 IN  IF k1.albumId = 0 /\ k.opts.albumName # <<>>
                     THEN MREnter(s, [k1 EXCEPT !.endpoint = "albums"], t)
                     ELSE getAssets(s, k1, t)
      [] k.endpoint = "albums" ->
            IF body.res = "bad"
            THEN GPEmpty(s, Logged(k, "thrown"))
            ELSE LET name == toLowerCase(trim(k.opts.albumName))
                     i == IF body.res = "list" THEN findAlbum(body.items, name, 1)
                          ELSE 0
                 IN  getAssets(s, [k EXCEPT !.albumId =
                                      IF i # 0 THEN body.items[i].id ELSE 0], t)
      [] OTHER ->
            IF body.res = "bad"
            THEN GPEmpty(s, Logged(k, "thrown"))
            ELSE IF body.res = "none"
            THEN GPEmpty(s, k)
            ELSE LET kept == IF k.opts.minRating # -1 /\ body.items # <<>>
                             THEN filterRating(body.items, k.opts.minRating)
                             ELSE body.items
                 IN  GPMap(s, k, kept)

\* The parts of /^\s*while\s*\(\s*1\s*\)\s*\{\s*\}\s*/i between the \s*.
GuardParts ==
    << <<"w", "h", "i", "l", "e">>, <<"(">>, <<"1">>, <<")">>, <<"{">>, <<"}">> >>

\* Mutant of startsWith: letter case counts (no i flag).
startsWith_CaseSensitive(str, word) ==
    /\ Len(str) >= Len(word)
    /\ SubSeq(str, 1, Len(word)) = word

\* str begins with word, letter case ignored (the i flag).
startsWith(str, word) ==
    /\ Len(str) >= Len(word)
    /\ toLowerCase(SubSeq(str, 1, Len(word))) = word

\* Matches the parts in turn, each followed by \s*; rest is what follows.
RECURSIVE matchGuard(_, _)
matchGuard(str, parts) ==
    IF parts = <<>> THEN [ok |-> TRUE, rest |-> str]
    ELSE IF startsWith(str, Head(parts))
    THEN matchGuard(trimStart(SubSeq(str, Len(Head(parts)) + 1, Len(str))),
                    Tail(parts))
    ELSE [ok |-> FALSE, rest |-> str]

\* data.replace(/^\s*while\s*\(\s*1\s*\)\s*\{\s*\}\s*/i, "").trim()
stripGuard(data) ==
    LET m == matchGuard(trimStart(data), GuardParts)
    IN  trim(IF m.ok THEN m.rest ELSE data)

\* JSON.parse on the documents these characters can spell: a number of
\* digits 1, or an object with no members; ok is FALSE when it throws.
JSONparse(str) ==
    LET digits == str # <<>> /\ \A i \in 1..Len(str) : str[i] = "1"
        object == /\ Len(str) >= 2 /\ str[1] = "{" /\ str[Len(str)] = "}"
                  /\ \A i \in 2..(Len(str) - 1) : str[i] = " "
    IN  [ok |-> digits \/ object,
         value |-> IF digits THEN str ELSE IF object THEN <<"{", "}">> ELSE <<>>]

\* The 2xx branch of makeRequest's end handler on the text data: the body
\* handed on, and the value resolved with.
parse2xx(data) ==
    LET p == JSONparse(stripGuard(data))
    IN  IF p.ok
        THEN [body |-> JsonBody(0, "none", <<>>), value |-> p.value]
        ELSE [body |-> TextBody, value |-> data]

\* resolve(parsed) / resolve(data) of makeRequest.
MRResolve(s, k, body, t) ==
    IF k.op = "getPhotos"
    THEN GPContinue(s, k, body, t)
    ELSE St(s, [k EXCEPT !.pc = "resolved", !.body = body])

\* ------------------------------------------------------- refreshAccessToken
\* Mutant of RefreshEnd: a failed refresh forgets the access token.
RefreshEnd_DropsOnError(s, o, t) ==
    IF o.kind = "ok"
    THEN LET r  == IF o.refresh # NoToken THEN o.refresh ELSE s.refreshToken
             sv == saveTokens(s, o.access, r, o.expiresIn, t, o.diskOk)
         IN  IF sv.threw
             THEN [s |-> sv.s, ok |-> FALSE, err |-> "parse",
                   granted |-> NoToken, saved |-> NoSave]
             ELSE [s |-> sv.s, ok |-> TRUE, err |-> "none",
                   granted |-> o.access,
                   saved |-> SaveArgs(o.access, r, o.expiresIn, t)]
    ELSE [s |-> [s EXCEPT !.accessToken = NoToken], ok |-> FALSE,
          err |-> "provider", granted |-> NoToken, saved |-> NoSave]

\* Mutant of ExchangeEnd: a response without refresh_token keeps the refresh
\* token held before, as refreshAccessToken does.
ExchangeEnd_CarriesRefresh(s, o, t) ==
    IF o.kind = "ok"
    THEN LET r  == IF o.refresh # NoToken THEN o.refresh ELSE s.refreshToken
             sv == saveTokens(s, o.access, r, o.expiresIn, t, o.diskOk)
         IN  IF sv.threw
             THEN [s |-> sv.s, ok |-> FALSE, err |-> "parse",
                   granted |-> NoToken, saved |-> NoSave]
             ELSE [s |-> sv.s, ok |-> TRUE, err |-> "none",
                   granted |-> o.access,
                   saved |-> SaveArgs(o.access, r, o.expiresIn, t)]
    ELSE [s |-> s, ok |-> FALSE,
          err |-> CASE o.kind = "error" -> "provider"
                    [] o.kind = "garbage" -> "parse"
                    [] OTHER -> "transport",
          granted |-> NoToken, saved |-> NoSave]

\* The end handler of exchangeCodeForToken: the refresh token is the
\* response's or null.
ExchangeEnd(s, o, t) ==
    IF o.kind = "ok"
    THEN LET sv == saveTokens(s, o.access, o.refresh, o.expiresIn, t, o.diskOk)
         IN  IF sv.threw
             THEN [s |-> sv.s, ok |-> FALSE, err |-> "parse",
                   granted |-> NoToken, saved |-> NoSave]
             ELSE [s |-> sv.s, ok |-> TRUE, err |-> "none",
                   granted |-> o.access,
                   saved |-> SaveArgs(o.access, o.refresh, o.expiresIn, t)]
    ELSE [s |-> s, ok |-> FALSE,
          err |-> CASE o.kind = "error" -> "provider"
                    [] o.kind = "garbage" -> "parse"
                    [] OTHER -> "transport",
          granted |-> NoToken, saved |-> NoSave]

\* Mutant of RefreshEnd: the response's refresh_token is saved as it is, as
\* exchangeCodeForToken does.
RefreshEnd_ResponseTokenOnly(s, o, t) == ExchangeEnd(s, o, t)

\* The end handler of refreshAccessToken (and req.on("error")) for the
\* provider's answer o: the new token state, and whether the promise resolved.
RefreshEnd(s, o, t) ==
    IF o.kind = "ok"
    THEN LET r  == IF o.refresh # NoToken THEN o.refresh ELSE s.refreshToken
             sv == saveTokens(s, o.access, r, o.expiresIn, t, o.diskOk)
         IN  IF sv.threw
             THEN [s |-> sv.s, ok |-> FALSE, err |-> "parse",
                   granted |-> NoToken, saved |-> NoSave]
             ELSE [s |-> sv.s, ok |-> TRUE, err |-> "none",
                   granted |-> o.access,
                   saved |-> SaveArgs(o.access, r, o.expiresIn, t)]
    ELSE [s |-> s, ok |-> FALSE,
          err |-> CASE o.kind = "error" -> "provider"
                    [] o.kind = "garbage" -> "parse"
                    [] OTHER -> "transport",
          granted |-> NoToken, saved |-> NoSave]

\* Mutant of MRRefreshed: after a good refresh makeRequest goes on with the
\* access token it read before the await.
MRRefreshed_TokenBeforeAwait(s, k, r, t) ==
    LET k1 == [Logged(k, IF r.ok THEN "r+" ELSE "r-") EXCEPT
                 !.granted = IF r.ok THEN r.granted ELSE @]
        old == [r.s EXCEPT !.accessToken = s.accessToken]
    IN  CASE k.pc = "preRefresh" ->
                IF r.ok THEN St(r.s, MRMissing(old, k1).k)
                ELSE MRMissing([r.s EXCEPT !.accessToken = NoToken], k1)
          [] k.pc = "missRefresh" ->
                IF r.ok THEN St(r.s, MRTokenCheck(old, k1).k)
                ELSE MRReject(r.s, k1, "reauthenticate")
          [] OTHER ->
                IF r.ok THEN MREnter(r.s, k1, t)
                ELSE MRReject(r.s, k1, r.err)

\* Mutant of MRRefreshed: a failed pre-flight refresh leaves the stale access
\* token in place.
MRRefreshed_KeepsStaleToken(s, k, r, t) ==
    LET k1 == [Logged(k, IF r.ok THEN "r+" ELSE "r-") EXCEPT
                 !.granted = IF r.ok THEN r.granted ELSE @]
    IN  CASE k.pc = "preRefresh" -> MRMissing(r.s, k1)
          [] k.pc = "missRefresh" ->
                IF r.ok THEN MRTokenCheck(r.s, k1)
                ELSE MRReject(r.s, k1, "reauthenticate")
          [] OTHER ->
                IF r.ok THEN MREnter(r.s, k1, t)
                ELSE MRReject(r.s, k1, r.err)

\* makeRequest resumed after the refresh it awaited settled (r = RefreshEnd).
MRRefreshed(s, k, r, t) ==
    LET k1 == [Logged(k, IF r.ok THEN "r+" ELSE "r-") EXCEPT
                 !.granted = IF r.ok THEN r.granted ELSE @]
    IN  CASE k.pc = "preRefresh" ->
                IF r.ok THEN MRMissing(r.s, k1)
                ELSE MRMissing([r.s EXCEPT !.accessToken = NoToken], k1)
          [] k.pc = "missRefresh" ->
                IF r.ok THEN MRTokenCheck(r.s, k1)
                ELSE MRReject(r.s, k1, "reauthenticate")
          [] OTHER ->
                IF r.ok THEN MREnter(r.s, k1, t)
                ELSE MRReject(r.s, k1, r.err)

\* Mutant of MRResponse: every failure with a refresh token held is taken
\* for an expired token, refreshed and retried.
MRResponse_RetriesAnyFailure(s, k, a, t) ==
    CASE a.status = "2xx" ->
            MRResolve(s, Logged(k, IF a.body.kind = "json" THEN "200"
                                   ELSE "200text"), a.body, t)
      [] OTHER ->
            LET ev == CASE a.status = "401" -> "401"
                        [] a.status = "other" -> "err"
                        [] OTHER -> "net"
            IN  IF s.refreshToken # NoToken
                THEN St(s, [Logged(k, ev) EXCEPT !.pc = "retryRefresh",
                                                 !.rt = s.refreshToken])
                ELSE MRReject(s, Logged(k, ev), "expired")

\* The end handler of makeRequest's dispatch (and req.on("error")).
\* a = [status, body]: status "401", "2xx", "other" or "neterr".
MRResponse(s, k, a, t) ==
    CASE a.status = "401" ->
            IF s.refreshToken # NoToken
            THEN St(s, [Logged(k, "401") EXCEPT !.pc = "retryRefresh",
                                                !.rt = s.refreshToken])
            ELSE MRReject(s, Logged(k, "401"), "expired")
      [] a.status = "2xx" ->
            MRResolve(s, Logged(k, IF a.body.kind = "json" THEN "200"
                                   ELSE "200text"), a.body, t)
      [] a.status = "other" -> MRReject(s, Logged(k, "err"), "api")
      [] OTHER -> MRReject(s, Logged(k, "net"), "transport")

\* -------------------------------------------------------------- getRendition
GRReject(s, k, err) == St(s, [k EXCEPT !.pc = "rejected", !.err = err])

\* if (!this.accessToken) throw ...; then the dispatch.
GRTokenCheck(s, k) ==
    IF s.accessToken = NoToken
    THEN GRReject(s, k, "reauthenticate")
    ELSE St(s, [k EXCEPT !.pc = "dispatched", !.sent = s.accessToken])

\* Mutant of GREnter: no refresh attempt when the access token is missing.
GREnter_NoRefresh(s, k) == GRTokenCheck(s, k)

\* getRendition from its entry to its first suspension point.
GREnter(s, k) ==
    IF s.accessToken = NoToken /\ s.refreshToken # NoToken
    THEN St(s, [k EXCEPT !.pc = "missRefresh", !.rt = s.refreshToken])
    ELSE GRTokenCheck(s, k)

\* getRendition resumed after the refresh it awaited settled.
GRRefreshed(s, k, r) ==
    LET k1 == [Logged(k, IF r.ok THEN "r+" ELSE "r-") EXCEPT
                 !.granted = IF r.ok THEN r.granted ELSE @]
    IN  IF ~r.ok THEN GRReject(r.s, k1, r.err)
        ELSE IF k.pc = "missRefresh" THEN GRTokenCheck(r.s, k1)
        ELSE GREnter(r.s, k1)

\* The end handler of getRendition's request (and req.on("error")).
GRResponse(s, k, a) ==
    CASE a.status = "401" /\ s.refreshToken # NoToken ->
            St(s, [Logged(k, "401") EXCEPT !.pc = "retryRefresh",
                                           !.rt = s.refreshToken])
      [] a.status = "401" -> GRReject(s, Logged(k, "401"), "api")
      [] a.status = "2xx" ->
            St(s, [Logged(k, "200text") EXCEPT !.pc = "resolved", !.body = a.body])
      [] a.status = "other" -> GRReject(s, Logged(k, "err"), "api")
      [] OTHER -> GRReject(s, Logged(k, "net"), "transport")

\* ------------------------------------------------------ catalog API answers
Album(id, name) == [id |-> id, name |-> name, userRating |-> -1, rating |-> -1]
Asset(id, userRating, rating) ==
    [id |-> id, name |-> <<>>, userRating |-> userRating, rating |-> rating]

AlbumLists ==
    {<<>>, <<Album(1, <<"E", "u">>)>>,
     <<Album(2, <<"x">>), Album(3, <<" ", "e", "U">>), Album(1, <<"E", "u">>)>>}

AssetLists ==
    {<<>>, <<Asset(1, 5, -1), Asset(2, -1, 2), Asset(0, -1, -1)>>,
     <<Asset(3, 1, 4), Asset(4, -1, 4), Asset(5, 0, 5)>>}

OptsSet ==
    [albumId : {0, 4}, albumName : {<<>>, <<"e", "U", " ">>, <<"n">>},
     minRating : {-1, 3}, limit : {0, 2}]

\* The 2xx bodies the API can give at an endpoint.
Bodies(endpoint) ==
    {TextBody, JsonBody(0, "none", <<>>)} \cup
    CASE endpoint = "catalog" -> {JsonBody(1, "none", <<>>)}
      [] endpoint = "albums" ->
            {JsonBody(0, "bad", <<>>)} \cup
            {JsonBody(0, "list", l) : l \in AlbumLists}
      [] endpoint \in {"assets", "albumAssets"} ->
            {JsonBody(0, "bad", <<>>)} \cup
            {JsonBody(0, "list", l) : l \in AssetLists}
      [] OTHER -> {}

\* Texts of 2xx answers: white space, a guard or something like one, a
\* payload.
RawBodies ==
    {lead \o guard \o payload :
        lead \in {<<>>, <<" ">>},
        guard \in {<<>>,
                   <<"w", "h", "i", "l", "e", " ", "(", "1", ")", " ", "{", "}">>,
                   <<"W", "H", "I", "L", "E", " ", "(", "1", ")", " ", "{", "}">>,
                   <<"W", "h", "i", "l", "e", "(", " ", "1", ")", "{", " ", "}">>,
                   <<"w", "h", "i", "l", "e", " ", "(", "1", ")">>},
        payload \in {<<>>, <<"1">>, <<" ", "1", "1", " ">>, <<"{", "}">>,
                     <<"{", " ", "}">>, <<"{">>, <<"x">>}}

N401(k) == Cardinality({i \in 1..Len(k.log) : k.log[i].ev = "401"})

ApiOutcomes(k) ==
    {[status |-> st, body |-> NoBody] : st \in {"other", "neterr"}} \cup
    {[status |-> "2xx", body |-> b] : b \in Bodies(k.endpoint)} \cup
    (IF N401(k) < Max401 THEN {[status |-> "401", body |-> NoBody]} ELSE {})

\* ------------------------------------------------------------------ actions
\* The step's effect on the service: s the token state it leaves, saved the
\* arguments of the saveTokens call it made (NoSave: none).
SetSvc(s, saved) ==
    /\ accessToken' = s.accessToken
    /\ refreshToken' = s.refreshToken
    /\ tokenExpiresAt' = s.tokenExpiresAt
    /\ tokensFile' = s.file
    /\ hist' = [saved |-> IF saved # NoSave THEN saved
                          ELSE IF s.file.exists THEN hist.saved ELSE NoSave,
                loaded |-> hist.loaded /\ saved = NoSave
                           /\ s.accessToken = accessToken
                           /\ s.refreshToken = refreshToken
                           /\ s.tokenExpiresAt = tokenExpiresAt,
                clears |-> 0]

\* resolvers.Query.photos after its await of getPhotos: the list of getPhotos
\* when it has photos, else (empty, or getPhotos threw) that of photos.json.
\* The continuation runs in the turn in which getPhotos settles.
photosAnswer(k) ==
    IF k.query /\ Settled(k)
    THEN [k EXCEPT !.answer = IF k.pc = "resolved" /\ k.photos # <<>>
                              THEN "adobe" ELSE "local"]
    ELSE k

Apply(c, r) ==
    /\ SetSvc(r.s, NoSave)
    /\ calls' = [calls EXCEPT ![c] = photosAnswer(r.k)]

ApplySaved(c, r, saved) ==
    /\ SetSvc(r.s, saved)
    /\ calls' = [calls EXCEPT ![c] = photosAnswer(r.k)]

Begin(op, endpoint) == [IdleCall EXCEPT !.op = op, !.endpoint = endpoint]

\* Mutant of StartMakeRequest: a caller that needs a refresh while another
\* caller's refresh is in flight waits for that one instead of issuing its own.
StartMakeRequest_SharesRefresh(c) ==
    /\ calls[c].op = "idle"
    /\ LET r == MREnter(CurSvc, Begin("makeRequest", "catalog"), now)
           busy == \E d \in Calls \ {c} :
                      calls[d].pc \in {"preRefresh", "missRefresh", "retryRefresh"}
       IN  Apply(c, IF busy /\ r.k.pc \in {"preRefresh", "missRefresh"}
                    THEN St(CurSvc, [r.k EXCEPT !.pc = "joined"])
                    ELSE r)
    /\ UNCHANGED <<clientId, clientSecret, now, issued>>

\* A caller invokes makeRequest (getCatalogs).
StartMakeRequest(c) ==
    /\ calls[c].op = "idle"
    /\ Apply(c, MREnter(CurSvc, Begin("makeRequest", "catalog"), now))
    /\ UNCHANGED <<clientId, clientSecret, now, issued>>

\* GET /api/adobe/rendition/:catalogId/:assetId invokes getRendition.
StartGetRendition(c) ==
    /\ calls[c].op = "idle"
    /\ Apply(c, GREnter(CurSvc, Begin("getRendition", "rendition")))
    /\ UNCHANGED <<clientId, clientSecret, now, issued>>

\* getPhotos(options): getCatalogs() is its first request.
StartGetPhotos(c) ==
    /\ calls[c].op = "idle"
    /\ \E opts \in OptsSet :
          Apply(c, MREnter(CurSvc, [Begin("getPhotos", "catalog") EXCEPT
                                      !.opts = opts], now))
    /\ UNCHANGED <<clientId, clientSecret, now, issued>>

\* The GraphQL photos query: [] when isConnected() is false, else getPhotos.
StartPhotosQuery(c) ==
    /\ calls[c].op = "idle"
    /\ IF ~isConnected(CurSvc)
       THEN /\ calls' = [calls EXCEPT ![c] =
                           [Begin("photos", "none") EXCEPT
                              !.query = TRUE, !.pc = "resolved",
                              !.answer = "empty"]]
            /\ UNCHANGED <<accessToken, refreshToken, tokenExpiresAt,
                           tokensFile, hist>>
       ELSE \E opts \in OptsSet :
               Apply(c, MREnter(CurSvc, [Begin("getPhotos", "catalog") EXCEPT
                                           !.opts = opts, !.query = TRUE], now))
    /\ UNCHANGED <<clientId, clientSecret, now, issued>>

\* exchangeCodeForToken(code) up to the POST; code 0 is the empty code.
ExchangeStart(k, code) ==
    IF ~clientId \/ ~clientSecret
    THEN [k EXCEPT !.pc = "rejected", !.err = "config"]
    ELSE IF code = 0
    THEN [k EXCEPT !.pc = "rejected", !.err = "validation", !.code = code]
    ELSE [k EXCEPT !.pc = "tokenPost", !.code = code]

StartExchange(c) ==
    /\ calls[c].op = "idle"
    /\ \E code \in {0, 1} :
          calls' = [calls EXCEPT ![c] = ExchangeStart(Begin("exchange", "token"), code)]
    /\ UNCHANGED <<accessToken, refreshToken, tokenExpiresAt, tokensFile,
                   clientId, clientSecret, now, issued, hist>>

\* A caller invokes refreshAccessToken(this.refreshToken) itself.
StartRefresh(c) ==
    /\ calls[c].op = "idle"
    /\ refreshToken # NoToken
    /\ calls' = [calls EXCEPT ![c] =
                    [Begin("refresh", "token") EXCEPT !.pc = "tokenPost",
                                                      !.rt = refreshToken]]
    /\ UNCHANGED <<accessToken, refreshToken, tokenExpiresAt, tokensFile,
                   clientId, clientSecret, now, issued, hist>>

Grant(o) == IF o.kind = "ok" THEN issued + 1 ELSE issued

\* The token endpoint answers a code exchange.
ExchangeResponse(c) ==
    /\ calls[c].op = "exchange" /\ calls[c].pc = "tokenPost"
    /\ \E o \in TokenOutcomes :
          LET r == ExchangeEnd(CurSvc, o, now)
          IN  /\ ApplySaved(c, St(r.s, [calls[c] EXCEPT
                                      !.pc = IF r.ok THEN "resolved" ELSE "rejected",
                                      !.err = r.err,
                                      !.granted = r.granted,
                                      !.newRt = o.refresh,
                                      !.prevRt = refreshToken]), r.saved)
              /\ issued' = Grant(o)
    /\ UNCHANGED <<clientId, clientSecret, now>>

\* The token endpoint answers a refresh, and the awaiting code resumes.
RefreshResponse(c) ==
    /\ calls[c].pc \in {"preRefresh", "missRefresh", "retryRefresh"}
       \/ (calls[c].op = "refresh" /\ calls[c].pc = "tokenPost")
    /\ \E o \in TokenOutcomes :
          LET r == RefreshEnd(CurSvc, o, now)
              k == [calls[c] EXCEPT !.newRt = o.refresh]
          IN  /\ ApplySaved(c,
                     CASE k.op = "refresh" ->
                             St(r.s, [Logged(k, IF r.ok THEN "r+" ELSE "r-") EXCEPT
                                        !.pc = IF r.ok THEN "resolved" ELSE "rejected",
                                        !.err = r.err,
                                        !.granted = r.granted])
                       [] k.op = "getRendition" -> GRRefreshed(CurSvc, k, r)
                       [] OTHER -> MRRefreshed(CurSvc, k, r, now),
                     r.saved)
              /\ issued' = Grant(o)
    /\ UNCHANGED <<clientId, clientSecret, now>>

\* The catalog API answers a dispatch (or the transport fails).
ApiResponse(c) ==
    /\ calls[c].pc = "dispatched"
    /\ \E a \in ApiOutcomes(calls[c]) :
          LET k == [calls[c] EXCEPT !.resp = a.body]
          IN  Apply(c, IF k.op = "getRendition"
                       THEN GRResponse(CurSvc, k, a)
                       ELSE MRResponse(CurSvc, k, a, now))
    /\ UNCHANGED <<clientId, clientSecret, now, issued>>

\* GET /api/adobe/status: the handler answers with isConnected().
Status(c) ==
    /\ calls[c].op = "idle"
    /\ calls' = [calls EXCEPT ![c] =
                    [Begin("status", "none") EXCEPT
                       !.pc = "resolved", !.connected = isConnected(CurSvc)]]
    /\ UNCHANGED <<accessToken, refreshToken, tokenExpiresAt, tokensFile,
                   clientId, clientSecret, now, issued, hist>>

\* The catalog API answers a makeRequest dispatch 2xx with the text data.
ApiResponseText(c) ==
    /\ calls[c].pc = "dispatched" /\ calls[c].op = "makeRequest"
    /\ \E data \in RawBodies :
          LET p == parse2xx(data)
              k == [calls[c] EXCEPT !.resp = p.body, !.hasData = TRUE,
                                    !.data = data, !.value = p.value]
          IN  Apply(c, MRResponse(CurSvc, k, [status |-> "2xx", body |-> p.body],
                                  now))
    /\ UNCHANGED <<clientId, clientSecret, now, issued>>

\* The caller takes the settled promise's result.
Return(c) ==
    /\ Settled(calls[c])
    /\ calls' = [calls EXCEPT ![c] = IdleCall]
    /\ UNCHANGED <<accessToken, refreshToken, tokenExpiresAt, tokensFile,
                   clientId, clientSecret, now, issued, hist>>

\* POST /api/adobe/disconnect: clearTokens().
ClearTokens ==
    /\ \E diskOk \in BOOLEAN :
          LET s == clearTokens(CurSvc, diskOk)
          IN  /\ accessToken' = s.accessToken
              /\ refreshToken' = s.refreshToken
              /\ tokenExpiresAt' = s.tokenExpiresAt
              /\ tokensFile' = s.file
              /\ hist' = [saved |-> IF s.file.exists THEN hist.saved ELSE NoSave,
                          loaded |-> hist.loaded /\ s.accessToken = accessToken
                                     /\ s.refreshToken = refreshToken
                                     /\ s.tokenExpiresAt = tokenExpiresAt,
                          clears |-> IF hist.clears < MaxClears
                                     THEN hist.clears + 1 ELSE hist.clears]
    /\ UNCHANGED <<clientId, clientSecret, now, issued, calls>>

\* The process restarts: a fresh instance is constructed and loads the file;
\* the calls of the old process are gone.
Restart ==
    /\ LET s == loadTokens(tokensFile, now)
       IN  /\ accessToken' = s.accessToken
           /\ refreshToken' = s.refreshToken
           /\ tokenExpiresAt' = s.tokenExpiresAt
    /\ calls' = [c \in Calls |-> IdleCall]
    /\ hist' = [hist EXCEPT !.loaded = TRUE, !.clears = 0]
    /\ UNCHANGED <<tokensFile, clientId, clientSecret, now, issued>>

Tick ==
    /\ now < MaxTime
    /\ now' = now + 1
    /\ UNCHANGED <<accessToken, refreshToken, tokenExpiresAt, tokensFile,
                   clientId, clientSecret, issued, calls, hist>>

\* After construction on a machine with no tokens file.
Init ==
    /\ accessToken = NoToken
    /\ refreshToken = NoToken
    /\ tokenExpiresAt = NoExpiry
    /\ tokensFile = NoFile
    /\ clientId \in BOOLEAN
    /\ clientSecret \in BOOLEAN
    /\ now = 0
    /\ issued = 0
    /\ calls = [c \in Calls |-> IdleCall]
    /\ hist = [saved |-> NoSave, loaded |-> TRUE, clears |-> 0]

\* One caller at a time, with disconnects, restarts and the clock in between.
Next ==
    \/ StartMakeRequest(1)
    \/ StartGetRendition(1)
    \/ StartExchange(1)
    \/ StartRefresh(1)
    \/ ExchangeResponse(1)
    \/ RefreshResponse(1)
    \/ ApiResponse(1)
    \/ Status(1)
    \/ Return(1)
    \/ ClearTokens
    \/ Restart
    \/ Tick

Spec == Init /\ [][Next]_vars

\* getPhotos on an instance constructed at time t over the tokens file that a
\* code exchange at time 0 wrote, or over no file.
InitPhotos ==
    /\ \E o \in {[kind |-> "ok", access |-> 1, refresh |-> r, expiresIn |-> e,
                   diskOk |-> TRUE] : r \in {NoToken, 1}, e \in {0, TokenLifetime}},
          t \in {0, TokenLifetime - Horizon + 1, TokenLifetime + 1},
          connected \in BOOLEAN :
          LET x == ExchangeEnd(Svc(NoToken, NoToken, NoExpiry, NoFile), o, 0)
              f == IF connected THEN x.s.file ELSE NoFile
              s == loadTokens(f, t)
          IN  /\ accessToken = s.accessToken
              /\ refreshToken = s.refreshToken
              /\ tokenExpiresAt = s.tokenExpiresAt
              /\ tokensFile = f
              /\ now = t
              /\ issued = IF connected THEN 1 ELSE 0
              /\ hist = [saved |-> IF connected THEN x.saved ELSE NoSave,
                         loaded |-> TRUE, clears |-> 0]
    /\ clientId = TRUE
    /\ clientSecret = TRUE
    /\ calls = [c \in Calls |-> IdleCall]

NextPhotos ==
    \/ StartGetPhotos(1)
    \/ StartPhotosQuery(1)
    \/ RefreshResponse(1)
    \/ ApiResponse(1)
    \/ Return(1)

SpecPhotos == InitPhotos /\ [][NextPhotos]_vars

\* Two logically concurrent callers of makeRequest on an instance constructed
\* as for InitPhotos.
NextTwo ==
    \E c \in Calls :
        \/ StartMakeRequest(c)
        \/ RefreshResponse(c)
        \/ ApiResponse(c)
        \/ Return(c)

SpecTwo == InitPhotos /\ [][NextTwo]_vars

\* makeRequest with the texts of its 2xx answers spelled out.
NextBody ==
    \/ StartMakeRequest(1)
    \/ RefreshResponse(1)
    \/ ApiResponse(1)
    \/ ApiResponseText(1)
    \/ Return(1)

SpecBody == InitPhotos /\ [][NextBody]_vars

\* ------------------------------------------------------------------ claims
\* The token store as one value, for the frame conditions below.
store == <<accessToken, refreshToken, tokenExpiresAt, tokensFile>>

\* A token whose known expiry is past or less than Horizon away at time t.
KnownStale(exp, t) == exp # NoExpiry /\ exp - t < Horizon

\* This step starts operation op of caller 1.
Starts(op) == calls[1].op = "idle" /\ calls'[1].op = op

\* This step puts a request of caller 1 on the wire.
Dispatches == calls'[1].pc = "dispatched" /\ calls'[1] # calls[1]

\* This step delivers the outcome ev to caller 1 while it waits at pc.
Receives(pc, ev) ==
    /\ calls[1].pc = pc
    /\ Len(calls'[1].log) > Len(calls[1].log)
    /\ calls'[1].log[Len(calls[1].log) + 1].ev = ev

\* C1: a makeRequest whose first dispatch was answered 401, that then
\* refreshed successfully and whose retried dispatch was answered 401 again
\* has been rejected, and nothing was sent after that second 401: no second
\* refresh, no third dispatch.
C1_SingleRetryBound ==
    LET k == calls[1]
    IN  (k.op = "makeRequest" /\ Len(k.log) >= 3
         /\ SubSeq(Evs(k), 1, 3) = <<"401", "r+", "401">>)
        => (k.pc = "rejected" /\ Len(k.log) = 3
            /\ NRefresh(k) = 1 /\ NDispatch(k) = 2)

\* C2 as stated: a settled getPhotos has resolved, and with the empty list
\* whenever one of its requests failed or had a body that is not JSON.
C2_EmptyOnAnyFailure ==
    LET k == calls[1]
    IN  (k.op = "getPhotos" /\ Settled(k))
        => /\ k.pc = "resolved"
           /\ (\E i \in 1..Len(k.log) : k.log[i].ev \in {"thrown", "200text"})
              => k.photos = <<>>

\* C2, amended: getPhotos never rejects; a settled getPhotos has resolved, and
\* with the empty list whenever one of its requests was rejected or threw, or
\* the catalog or the asset answer was not JSON.  (An album list that is not
\* JSON counts as "no album of that name".)
C2_NeverRaises ==
    LET k == calls[1]
    IN  (k.op = "getPhotos" /\ k.pc # "idle")
        => /\ k.pc # "rejected"
           /\ (Settled(k) /\ \E i \in 1..Len(k.log) :
                                \/ k.log[i].ev = "thrown"
                                \/ k.log[i].ev = "200text" /\ k.log[i].ep # "albums")
              => (k.pc = "resolved" /\ k.photos = <<>>)

\* C2 witness: the catalog request failed in transport and getPhotos resolved
\* with the empty list.
C2_Witness ==
    LET k == calls[1]
    IN  /\ k.op = "getPhotos" /\ k.pc = "resolved" /\ k.photos = <<>>
        /\ Evs(k) = <<"net", "thrown">>
        /\ k.log[1].ep = "catalog"

\* C3: every dispatch of makeRequest carries the access token in memory, whose
\* expiry is unknown or at least Horizon away; a makeRequest that finds the
\* token stale first refreshes with the held refresh token, and drops the
\* token when there is none or the refresh fails; a token that is not stale is
\* dispatched at once with no refresh call.
C3_Step ==
    LET k == calls[1]
        k2 == calls'[1]
    IN  /\ (Dispatches /\ k2.op = "makeRequest")
           => (k2.sent = accessToken' /\ k2.sent # NoToken
               /\ ~KnownStale(tokenExpiresAt', now'))
        /\ (Starts("makeRequest") /\ accessToken # NoToken
            /\ KnownStale(tokenExpiresAt, now))
           => IF refreshToken # NoToken
              THEN k2.pc = "preRefresh" /\ k2.rt = refreshToken
              ELSE accessToken' = NoToken /\ k2.pc = "rejected"
        /\ (k.op = "makeRequest" /\ Receives("preRefresh", "r-"))
           => (accessToken' = NoToken /\ k2.pc # "dispatched")
        /\ (Starts("makeRequest") /\ accessToken # NoToken
            /\ ~KnownStale(tokenExpiresAt, now))
           => (k2.pc = "dispatched" /\ k2.sent = accessToken /\ k2.log = <<>>
               /\ UNCHANGED store)

C3_PreflightFreshness == [][C3_Step]_vars

\* C3 witness: the pre-flight refresh failed, the token was dropped, the
\* missing-token refresh succeeded and the granted token was dispatched.
C3_Witness ==
    LET k == calls[1]
    IN  /\ k.op = "makeRequest" /\ k.pc = "dispatched"
        /\ Evs(k) = <<"r-", "r+">>
        /\ k.sent = k.granted

\* C4: a makeRequest answered 401, then granted a refresh, has its retry on the
\* wire with the granted token; when that retry is answered 2xx the call has
\* resolved with that answer's body after one refresh and two dispatches.
C4_RetryThenOk ==
    LET k == calls[1]
    IN  (k.op = "makeRequest" /\ Len(k.log) >= 2
         /\ SubSeq(Evs(k), 1, 2) = <<"401", "r+">>)
        => /\ Len(k.log) = 2
              => (k.pc = "dispatched" /\ k.sent = k.granted /\ k.sent # NoToken)
           /\ (Len(k.log) >= 3 /\ k.log[3].ev \in {"200", "200text"})
              => (Len(k.log) = 3 /\ k.pc = "resolved" /\ k.body = k.resp
                  /\ k.body # NoBody
                  /\ NRefresh(k) = 1 /\ NDispatch(k) = 2)

C4_Witness ==
    LET k == calls[1]
    IN  /\ k.op = "makeRequest" /\ k.pc = "resolved"
        /\ Evs(k) = <<"401", "r+", "200">>
        /\ k.body = JsonBody(1, "none", <<>>)

\* C5: makeRequest with no token at all is rejected at once with the
\* "authenticate" error, sends nothing and leaves the store alone; with only a
\* refresh token it sends one refresh and nothing else, and when that refresh
\* fails it is rejected with the "re-authenticate" error without a dispatch.
C5_Step ==
    LET k == calls[1]
        k2 == calls'[1]
    IN  /\ (Starts("makeRequest") /\ accessToken = NoToken
            /\ refreshToken = NoToken)
           => (k2.pc = "rejected" /\ k2.err = "authenticate" /\ k2.log = <<>>
               /\ k2.sent = NoToken /\ UNCHANGED store)
        /\ (Starts("makeRequest") /\ accessToken = NoToken
            /\ refreshToken # NoToken)
           => (k2.pc = "missRefresh" /\ k2.rt = refreshToken /\ k2.log = <<>>
               /\ UNCHANGED store)
        /\ (k.op = "makeRequest" /\ k.log = <<>> /\ Receives("missRefresh", "r-"))
           => (k2.pc = "rejected" /\ k2.err = "reauthenticate"
               /\ NDispatch(k2) = 0 /\ NRefresh(k2) = 1)

C5_MissingToken == [][C5_Step]_vars

\* C5 witness: with only a refresh token held, the refresh failed and the call
\* was rejected with the re-authenticate error.
C5_Witness ==
    LET k == calls[1]
    IN  /\ k.op = "makeRequest" /\ k.pc = "rejected"
        /\ k.err = "reauthenticate" /\ Evs(k) = <<"r-">>
        /\ k.sent = NoToken

\* C6 as stated: getRendition never dispatches a token whose known expiry is
\* past or within Horizon unless it attempted a refresh first, and a refresh
\* failure ends it with the re-authenticate error.
C6_Step_Stated ==
    LET k == calls[1]
        k2 == calls'[1]
    IN  /\ (Dispatches /\ k2.op = "getRendition"
            /\ KnownStale(tokenExpiresAt', now'))
           => NRefresh(k2) >= 1
        /\ (k.op = "getRendition" /\ Receives("missRefresh", "r-"))
           => (k2.pc = "rejected" /\ k2.err = "reauthenticate")

C6_SameTokenRules == [][C6_Step_Stated]_vars

\* C6, amended: getRendition applies the missing-token rule only.  With no
\* access token and a refresh token it refreshes before any dispatch, and a
\* failing refresh rejects it with the refresh's own error, nothing
\* dispatched; with no token at all it is rejected with the re-authenticate
\* error, nothing sent; a held access token is dispatched as it is, whatever
\* its expiry.
C6_Step ==
    LET k == calls[1]
        k2 == calls'[1]
    IN  /\ (Starts("getRendition") /\ accessToken = NoToken
            /\ refreshToken # NoToken)
           => (k2.pc = "missRefresh" /\ k2.rt = refreshToken /\ UNCHANGED store)
        /\ (Starts("getRendition") /\ accessToken = NoToken
            /\ refreshToken = NoToken)
           => (k2.pc = "rejected" /\ k2.err = "reauthenticate"
               /\ k2.log = <<>> /\ UNCHANGED store)
        /\ (Starts("getRendition") /\ accessToken # NoToken)
           => (k2.pc = "dispatched" /\ k2.sent = accessToken /\ k2.log = <<>>
               /\ UNCHANGED store)
        /\ (k.op = "getRendition" /\ Receives("missRefresh", "r-"))
           => (k2.pc = "rejected"
               /\ k2.err \in {"provider", "parse", "transport"}
               /\ NDispatch(k2) = NDispatch(k) /\ UNCHANGED store)
        /\ (Dispatches /\ k2.op = "getRendition")
           => (k2.sent = accessToken' /\ k2.sent # NoToken)

C6_MissingTokenRuleOnly == [][C6_Step]_vars

\* C6 witness: a rendition request on the wire with a token whose expiry is
\* within Horizon, no refresh attempted.
C6_Witness ==
    LET k == calls[1]
    IN  /\ k.op = "getRendition" /\ k.pc = "dispatched" /\ k.log = <<>>
        /\ k.sent = accessToken
        /\ KnownStale(tokenExpiresAt, now)

\* C7: a getRendition answered 401, refreshed successfully and answered 401
\* again has been rejected, and nothing was sent after the second 401.
C7_RenditionSingleRetry ==
    LET k == calls[1]
    IN  (k.op = "getRendition" /\ Len(k.log) >= 3
         /\ SubSeq(Evs(k), 1, 3) = <<"401", "r+", "401">>)
        => (k.pc = "rejected" /\ Len(k.log) = 3
            /\ NRefresh(k) = 1 /\ NDispatch(k) = 2)

\* C8: exchangeCodeForToken with a missing credential or an empty code is
\* rejected before any request is sent; a rejected exchangeCodeForToken or
\* refreshAccessToken leaves the mirror and the tokens file exactly as they
\* were.
C8_Step ==
    LET k == calls[1]
        k2 == calls'[1]
    IN  /\ (Starts("exchange") /\ (~clientId \/ ~clientSecret))
           => (k2.pc = "rejected" /\ k2.err = "config")
        /\ (Starts("exchange") /\ clientId /\ clientSecret /\ k2.code = 0)
           => (k2.pc = "rejected" /\ k2.err = "validation")
        /\ (Starts("exchange") /\ k2.pc = "rejected") => UNCHANGED store
        /\ (k.op \in {"exchange", "refresh"} /\ k.pc = "tokenPost"
            /\ k2.pc = "rejected")
           => (UNCHANGED store /\ k2.err \in {"provider", "parse", "transport"})

C8_FailureLeavesStore == [][C8_Step]_vars

\* C8 witness: a connected account, and an exchange that the provider
\* answered with an error field.
C8_Witness ==
    LET k == calls[1]
    IN  /\ k.op = "exchange" /\ k.pc = "rejected" /\ k.err = "provider"
        /\ accessToken # NoToken /\ tokensFile.exists

\* C9: when exchangeCodeForToken or refreshAccessToken resolves, the tokens
\* file holds the granted access token and the mirror's access token, refresh
\* token and expiry; and every dispatch carries a token that the file holds.
C9_Step ==
    LET k == calls[1]
        k2 == calls'[1]
        granted == (k.op \in {"exchange", "refresh"} /\ k.pc = "tokenPost"
                    /\ k2.pc = "resolved")
                   \/ (k.pc \in {"preRefresh", "missRefresh", "retryRefresh"}
                       /\ Len(k2.log) > Len(k.log)
                       /\ k2.log[Len(k.log) + 1].ev = "r+")
    IN  /\ granted
           => /\ tokensFile'.exists
              /\ tokensFile'.accessToken = k2.granted
              /\ k2.granted # NoToken
              /\ tokensFile'.accessToken = accessToken'
              /\ tokensFile'.refreshToken = refreshToken'
              /\ tokensFile'.tokenExpiresAt = tokenExpiresAt'
        /\ Dispatches
           => (tokensFile'.exists /\ tokensFile'.accessToken = k2.sent)

C9_DurableBeforeUse == [][C9_Step]_vars

\* C9 witness: a request on the wire with the token a refresh just granted,
\* which the file holds.
C9_Witness ==
    LET k == calls[1]
    IN  /\ k.pc = "dispatched" /\ k.log # <<>>
        /\ k.log[Len(k.log)].ev = "r+"
        /\ k.sent = k.granted /\ tokensFile.accessToken = k.sent

\* C10: a fresh instance constructed at time t over the file that
\* saveTokens(a, r, expiresIn) wrote holds refresh token r, and access token a
\* unless the recorded expiry is before t, when it holds none; with no file it
\* holds no token and is not connected.
C10_Step ==
    Restart =>
        IF hist.saved = NoSave
        THEN /\ ~tokensFile.exists
             /\ accessToken' = NoToken /\ refreshToken' = NoToken
             /\ ~isConnected(Svc(accessToken', refreshToken', tokenExpiresAt',
                                 tokensFile'))
        ELSE /\ refreshToken' = hist.saved.r
             /\ accessToken' =
                  IF hist.saved.expiresIn # 0
                     /\ hist.saved.at + hist.saved.expiresIn < now
                  THEN NoToken ELSE hist.saved.a

C11_Step ==
    Starts("status")
    => /\ calls'[1].connected
          <=> (accessToken # NoToken \/ refreshToken # NoToken)
       /\ UNCHANGED <<store, clientId, clientSecret, now, issued>>

C11_IsConnectedIff == [][C11_Step]_vars

\* C11 witness: the access token is gone, the refresh token is held, and
\* isConnected() answered true.
C11_Witness ==
    /\ calls[1].op = "status" /\ calls[1].connected
    /\ accessToken = NoToken /\ refreshToken # NoToken

\* No token in memory and no tokens file.
Disconnected ==
    /\ accessToken = NoToken /\ refreshToken = NoToken
    /\ tokenExpiresAt = NoExpiry /\ tokensFile = NoFile
    /\ ~isConnected(CurSvc)

\* C12 as stated: after one clearTokens call or several in a row, no token is
\* in memory, the tokens file is absent and isConnected() is false.
C12_ClearsAlways == hist.clears > 0 => Disconnected

\* C12, amended: clearTokens on the disconnected state changes nothing; a
\* clearTokens call leaves the disconnected state, except that it leaves the
\* mirror and the file as they were when the file exists and cannot be
\* removed; once a call has disconnected, further calls keep that state.
C12_Step ==
    (hist'.clears > hist.clears)
    => /\ Disconnected' \/ (tokensFile.exists /\ UNCHANGED store)
       /\ Disconnected => Disconnected'
       /\ ~tokensFile.exists => Disconnected'

C12_ClearIdempotent == [][C12_Step]_vars

\* C12 witness: after a token was granted, two clearTokens calls in a row
\* have left the disconnected state.
C12_Witness == hist.clears = 2 /\ Disconnected /\ issued > 0

\* C13: a connected account stays connected in every step that is not a
\* clearTokens call: requests, expiries, refreshes that succeed or fail, and
\* restarts leave isConnected() true.  (An account is connected only through
\* a successful code exchange.)
C13_Step ==
    (isConnected(CurSvc) /\ ~ClearTokens)
    => (accessToken' # NoToken \/ refreshToken' # NoToken)

C13_StaysConnected == [][C13_Step]_vars

\* C14: a makeRequest that finds the access token missing, expired or within
\* Horizon of its expiry while a refresh token is held sends nothing and
\* refreshes with that refresh token; when the refresh succeeds it dispatches
\* at once with the access token just granted; and when that dispatch is
\* answered 2xx it resolves with the answer's body.  No code exchange takes
\* part.
C14_Step ==
    LET k == calls[1]
        k2 == calls'[1]
    IN  /\ (Starts("makeRequest") /\ refreshToken # NoToken
            /\ (accessToken = NoToken \/ KnownStale(tokenExpiresAt, now)))
           => (k2.pc \in {"preRefresh", "missRefresh"} /\ k2.rt = refreshToken
               /\ NDispatch(k2) = 0 /\ UNCHANGED store)
        /\ (k.op = "makeRequest"
            /\ (Receives("preRefresh", "r+") \/ Receives("missRefresh", "r+")))
           => (k2.pc = "dispatched" /\ k2.sent = k2.granted
               /\ k2.sent = issued' /\ issued' = issued + 1
               /\ k2.sent = accessToken' /\ k2.sent # accessToken)
        /\ (k.op = "makeRequest" /\ Evs(k) = <<"r+">>
            /\ (Receives("dispatched", "200") \/ Receives("dispatched", "200text")))
           => (k2.pc = "resolved" /\ k2.body = k2.resp /\ k2.body # NoBody)

C14_AutoRefresh == [][C14_Step]_vars

\* C14 witness: a makeRequest made after the access token had expired has
\* refreshed, dispatched with the new token and resolved with the 200 body.
C14_Witness ==
    LET k == calls[1]
    IN  /\ k.op = "makeRequest" /\ k.pc = "resolved" /\ Evs(k) = <<"r+", "200">>
        /\ k.sent = k.granted /\ k.sent = accessToken /\ k.sent > 1
        /\ k.body.kind = "json"
        /\ hist.saved.at > TokenLifetime

\* The call waits for the answer to a refresh it issued.
Refreshing(k) == k.pc \in {"preRefresh", "missRefresh", "retryRefresh"}

\* C15: a makeRequest that starts while another caller's pre-flight or
\* missing-token refresh is outstanding, and that finds the token stale or
\* missing itself, issues its own refresh with the held refresh token at
\* once; the other caller's refresh stays outstanding.
C15_Step ==
    \A c \in Calls : \A d \in Calls \ {c} :
        (/\ calls[c].op = "idle" /\ calls'[c].op = "makeRequest"
         /\ calls[d].pc \in {"preRefresh", "missRefresh"}
         /\ refreshToken # NoToken
         /\ (accessToken = NoToken \/ KnownStale(tokenExpiresAt, now)))
        => /\ calls'[c].pc \in {"preRefresh", "missRefresh"}
           /\ calls'[c].rt = refreshToken
           /\ calls'[d] = calls[d]
           /\ UNCHANGED store

C15_NoRefreshDedup == [][C15_Step]_vars

\* C15 witness: both callers wait for the answer to their first refresh,
\* issued with the same refresh token.
C15_Witness ==
    /\ calls[1].op = "makeRequest" /\ calls[2].op = "makeRequest"
    /\ Refreshing(calls[1]) /\ Refreshing(calls[2])
    /\ calls[1].log = <<>> /\ calls[2].log = <<>>
    /\ calls[1].rt = calls[2].rt /\ calls[1].rt # NoToken

RefreshGranted ==
    /\ Refreshing(calls[1]) \/ (calls[1].op = "refresh" /\ calls[1].pc = "tokenPost")
    /\ Len(calls'[1].log) > Len(calls[1].log)
    /\ calls'[1].log[Len(calls[1].log) + 1].ev = "r+"

\* C17: a successful refresh stores the granted access token and its expiry,
\* in memory and in the tokens file; the refresh token stored is the
\* response's when it carries one and otherwise the one held before.
C17_Step ==
    RefreshGranted
    => /\ accessToken' = calls'[1].granted /\ accessToken' = issued'
       /\ issued' = issued + 1
       /\ refreshToken' = IF calls'[1].newRt # NoToken
                           THEN calls'[1].newRt ELSE refreshToken
       /\ tokenExpiresAt' \in {NoExpiry, now + TokenLifetime}
       /\ tokensFile'.exists
       /\ tokensFile'.accessToken = accessToken'
       /\ tokensFile'.refreshToken = refreshToken'
       /\ tokensFile'.tokenExpiresAt = tokenExpiresAt'

C17_RefreshKeepsRefreshToken == [][C17_Step]_vars

\* C17 witness: a refresh whose response carried no refresh_token has
\* resolved, and the refresh token of the earlier exchange is still held
\* beside the new access token.
C17_Witness ==
    /\ calls[1].op = "refresh" /\ calls[1].pc = "resolved"
    /\ calls[1].newRt = NoToken
    /\ refreshToken = calls[1].rt /\ refreshToken # NoToken
    /\ accessToken = calls[1].granted /\ accessToken > refreshToken
    /\ tokensFile.refreshToken = refreshToken

\* The assets of the last answer that pass the rating filter of the options.
KeptAssets(k) ==
    IF k.opts.minRating # -1
    THEN filterRating(k.resp.items, k.opts.minRating)
    ELSE k.resp.items

\* C18: every Photo that getPhotos returns has the proxy path
\* /api/adobe/rendition/{catalogId}/{assetId}?type=2048 as its url, or the
\* empty url when the asset has no id; and the list is determined by the
\* options and the catalog API's answers alone (the catalog id and the assets
\* of the last answer), whatever the tokens that were held, refreshed or sent.
C18_NoTokenInPhotos ==
    LET k == calls[1]
        kept == KeptAssets(k)
    IN  (k.op = "getPhotos" /\ k.pc = "resolved" /\ k.photos # <<>>)
        => /\ Len(k.photos) = Len(kept)
           /\ \A i \in 1..Len(kept) :
                 LET p == k.photos[i]
                     a == kept[i]
                 IN  /\ p.catalogId = k.catalogId
                     /\ p.price = DefaultPrice
                     /\ IF a.id = 0
                        THEN p.url = <<>> /\ p.id = <<"adobe", i>>
                        ELSE /\ p.url = <<"/api/adobe/rendition", k.catalogId,
                                          a.id, "type=2048">>
                             /\ p.id = <<"asset", a.id>>

\* C18 witness: getPhotos refreshed the access token on its way and returned
\* photos, one with the proxy path and one with the empty url.
C18_Witness ==
    LET k == calls[1]
    IN  /\ k.op = "getPhotos" /\ k.pc = "resolved"
        /\ k.granted # NoToken /\ k.sent = k.granted
        /\ \E i, j \in 1..Len(k.photos) :
              k.photos[i].url = <<>> /\ k.photos[j].url # <<>>

\* No album of the list has the name asked for (trimmed, in lower case).
NoAlbumNamed(albums, albumName) ==
    \A i \in 1..Len(albums) :
        toLowerCase(trim(albums[i].name)) # toLowerCase(trim(albumName))

\* C20: when getPhotos was given an albumName and no albumId, and the album
\* list answered has no album of that name, getPhotos does not settle on that
\* answer: it goes on to makeRequest of the catalog-wide assets endpoint with
\* no album id (which dispatches, or first refreshes a token gone stale, or
\* fails for want of a token); and when that request is answered with a list
\* of assets it
\* resolves with the photos of those assets (those that pass the rating
\* filter), one photo per asset in order.
C20_Step ==
    LET k == calls[1]
        k2 == calls'[1]
    IN  /\ (/\ k.op = "getPhotos" /\ k.endpoint = "albums"
            /\ Receives("dispatched", "200")
            /\ k2.resp.res = "list"
            /\ NoAlbumNamed(k2.resp.items, k.opts.albumName))
           => /\ k.opts.albumId = 0 /\ k.opts.albumName # <<>>
              /\ k2.endpoint = "assets" /\ k2.albumId = 0
              /\ \/ k2.pc = "dispatched"
                 \/ Refreshing(k2)
                 \/ (accessToken' = NoToken /\ k2.pc = "resolved"
                     /\ k2.photos = <<>>)
        /\ (/\ k.op = "getPhotos" /\ k.endpoint = "assets"
            /\ k.opts.albumName # <<>>
            /\ Receives("dispatched", "200")
            /\ k2.resp.res = "list")
           => /\ k2.pc = "resolved"
              /\ Len(k2.photos) = Len(KeptAssets(k2))
              /\ \A i \in 1..Len(k2.photos) :
                    k2.photos[i] = toPhoto(KeptAssets(k2)[i], i, k2.catalogId)

C20_UnknownAlbumName == [][C20_Step]_vars

\* C20 witness: getPhotos({albumName: "n"}) found albums but none named "n",
\* fetched the catalog-wide assets and returned their photos.
C20_Witness ==
    LET k == calls[1]
    IN  /\ k.op = "getPhotos" /\ k.pc = "resolved"
        /\ k.opts.albumName = <<"n">> /\ k.opts.albumId = 0
        /\ Len(k.log) = 3 /\ k.log[2].ep = "albums" /\ k.log[2].ev = "200"
        /\ k.log[3].ep = "assets" /\ k.albumId = 0
        /\ Len(k.photos) = 3

\* C19: a photos query that got no photos from the Adobe integration (the
\* account is not connected, getPhotos failed or returned the empty list)
\* answers with the list of photos.json.
C19_LocalFallback ==
    LET k == calls[1]
    IN  (k.query /\ Settled(k) /\ k.photos = <<>>) => k.answer = "local"

\* The album's name, trimmed and in lower case, is the name asked for,
\* trimmed and in lower case.  " eU" and "eU " are both "eu".
SameAlbumName(album, albumName) ==
    LET lower(s) == [i \in 1..Len(s) |->
                       IF s[i] = "E" THEN "e" ELSE IF s[i] = "U" THEN "u" ELSE s[i]]
        inner(s) == LET idx == {i \in 1..Len(s) : s[i] # " "}
                    IN  IF idx = {} THEN <<>>
                        ELSE SubSeq(s, CHOOSE i \in idx : \A j \in idx : i <= j,
                                       CHOOSE i \in idx : \A j \in idx : i >= j)
    IN  lower(inner(album.name)) = lower(inner(albumName))

\* The request that getPhotos makes next is out, or waits for a refresh of a
\* token gone stale, or failed for want of a token.
NextRequestMade(k2) ==
    \/ k2.pc = "dispatched"
    \/ Refreshing(k2)
    \/ (accessToken' = NoToken /\ k2.pc = "resolved" /\ k2.photos = <<>>)

\* C21: when getPhotos was given an albumName and no albumId and the album
\* list has an album of that name (trimmed, in lower case), the id of the
\* first such album becomes the album id and the assets are requested from
\* that album's endpoint; when an albumId was given it is used as it is, and
\* getPhotos never requests the album list.
C21_Step ==
    LET k == calls[1]
        k2 == calls'[1]
        albums == k2.resp.items
    IN  /\ (/\ k.op = "getPhotos" /\ k.endpoint = "albums"
            /\ Receives("dispatched", "200") /\ k2.resp.res = "list"
            /\ \E i \in 1..Len(albums) : SameAlbumName(albums[i], k.opts.albumName))
           => \E i \in 1..Len(albums) :
                 /\ SameAlbumName(albums[i], k.opts.albumName)
                 /\ \A j \in 1..(i - 1) : ~SameAlbumName(albums[j], k.opts.albumName)
                 /\ k2.albumId = albums[i].id
                 /\ k2.endpoint = "albumAssets"
                 /\ NextRequestMade(k2)
        /\ (/\ k.op = "getPhotos" /\ k.endpoint = "catalog"
            /\ Receives("dispatched", "200") /\ k2.resp.id # 0
            /\ k.opts.albumId # 0)
           => /\ k2.albumId = k.opts.albumId
              /\ k2.endpoint = "albumAssets"
              /\ NextRequestMade(k2)
        /\ (k2.op = "getPhotos" /\ k2.opts.albumId # 0)
           => /\ k2.endpoint # "albums"
              /\ \A i \in 1..Len(k2.log) : k2.log[i].ep # "albums"

C21_AlbumNameResolution == [][C21_Step]_vars

\* C21 witness: getPhotos({albumName: "eU "}) took the album " eU" (id 3),
\* the first of two albums of that name, and returned its assets' photos.
C21_Witness ==
    LET k == calls[1]
    IN  /\ k.op = "getPhotos" /\ k.pc = "resolved"
        /\ k.opts.albumName = <<"e", "U", " ">> /\ k.opts.albumId = 0
        /\ k.albumId = 3
        /\ Len(k.log) = 3 /\ k.log[2].ep = "albums"
        /\ k.log[3].ep = "albumAssets" /\ k.log[3].ev = "200"
        /\ k.photos # <<>>

\* The asset's rating: userRating when it has one (0 included), else rating
\* when it has one, else 0.
PassesRating(a, minRating) ==
    \/ a.userRating # -1 /\ a.userRating >= minRating
    \/ a.userRating = -1 /\ a.rating # -1 /\ a.rating >= minRating
    \/ a.userRating = -1 /\ a.rating = -1 /\ 0 >= minRating

\* C22: the asset answer settles getPhotos with no further request, and the
\* photos returned are exactly those of the fetched assets that pass the
\* rating filter when minRating is given, and of all fetched assets when it
\* is not, in the fetched order, whatever limit the request carried and
\* however many assets came back.
C22_Step ==
    LET k == calls[1]
        k2 == calls'[1]
        items == k2.resp.items
        idx == IF k.opts.minRating = -1 THEN 1..Len(items)
               ELSE {i \in 1..Len(items) : PassesRating(items[i], k.opts.minRating)}
        nth(n) == CHOOSE i \in idx : Cardinality({j \in idx : j <= i}) = n
    IN  (/\ k.op = "getPhotos" /\ k.endpoint \in {"assets", "albumAssets"}
         /\ Receives("dispatched", "200") /\ k2.resp.res = "list")
        => /\ k2.pc = "resolved"
           /\ k2.limit = (IF k.opts.limit # 0 THEN k.opts.limit ELSE DefaultLimit)
           /\ Len(k2.photos) = Cardinality(idx)
           /\ \A n \in 1..Len(k2.photos) :
                 k2.photos[n] = toPhoto(items[nth(n)], n, k2.catalogId)

C22_RatingFilterPostFetch == [][C22_Step]_vars

\* C22 witness: getPhotos({minRating: 3, limit: 2}) fetched three assets with
\* (userRating, rating) = (1, 4), (none, 4), (0, 5) and returned the photo of
\* the second one only.
C22_Witness ==
    LET k == calls[1]
    IN  /\ k.op = "getPhotos" /\ k.pc = "resolved"
        /\ k.opts.minRating = 3 /\ k.opts.limit = 2 /\ k.limit = 2
        /\ Len(k.resp.items) = 3 /\ k.resp.items[3].userRating = 0
        /\ Len(k.photos) = 1 /\ k.photos[1].id = <<"asset", 4>>

\* The guard literal, in lower case.
GuardLiteral == <<"w", "h", "i", "l", "e", " ", "(", "1", ")", " ", "{", "}">>

\* str without the white space at its ends.
Inner(str) ==
    LET idx == {i \in 1..Len(str) : str[i] # " "}
    IN  IF idx = {} THEN <<>>
        ELSE SubSeq(str, CHOOSE i \in idx : \A j \in idx : i <= j,
                         CHOOSE i \in idx : \A j \in idx : i >= j)

\* JSON documents of the model's characters, with the value they denote.
IsDocument(str) == str \in {<<"1">>, <<"1", "1">>, <<"{", "}">>, <<"{", " ", "}">>}
DocumentValue(str) == IF str[1] = "{" THEN <<"{", "}">> ELSE str

\* data is white space, then the guard literal in some letter case, then a
\* JSON document (white space around it allowed): the document.
GuardedDocument(data) ==
    {Inner(SubSeq(data, i + Len(GuardLiteral) + 1, Len(data))) :
        i \in {i \in 0..Len(data) :
                 /\ \A j \in 1..i : data[j] = " "
                 /\ i + Len(GuardLiteral) <= Len(data)
                 /\ \A j \in 1..Len(GuardLiteral) :
                       data[i + j] = GuardLiteral[j]
                       \/ <<data[i + j], GuardLiteral[j]>> \in
                            {<<"W", "w">>, <<"H", "h">>, <<"I", "i">>,
                             <<"L", "l">>, <<"E", "e">>}}}

\* C23: a 2xx answer always resolves makeRequest; when its text is white
\* space, the guard literal in any letter case and a JSON document, with the
\* document's value; when what remains after stripping is not JSON, with the
\* text exactly as it was received.
C23_GuardPrefix ==
    LET k == calls[1]
    IN  (k.hasData /\ k.log # <<>> /\ k.log[Len(k.log)].ev \in {"200", "200text"})
        => /\ k.pc = "resolved"
           /\ \A doc \in GuardedDocument(k.data) :
                 IsDocument(doc)
                 => (k.body.kind = "json" /\ k.value = DocumentValue(doc))
           /\ k.body.kind \in {"json", "text"}
           /\ k.body.kind = "text" => k.value = k.data
           /\ k.body.kind = "json" => IsDocument(Inner(k.value))

\* C23 witness: " WHILE (1) {}" followed by the document 11 resolved with 11.
C23_Witness ==
    LET k == calls[1]
    IN  /\ k.hasData /\ k.pc = "resolved" /\ k.body.kind = "json"
        /\ k.data = <<" ", "W", "H", "I", "L", "E", " ", "(", "1", ")", " ",
                      "{", "}", " ", "1", "1", " ">>
        /\ k.value = <<"1", "1">>

\* The endpoints of the requests a call has put on the wire, in order.
Requested(k) ==
    LET answered == SelectSeq(k.log, LAMBDA e : IsApiOutcome(e.ev))
    IN  [i \in 1..Len(answered) |-> answered[i].ep]
        \o (IF k.pc = "dispatched" THEN <<k.endpoint>> ELSE <<>>)

\* C24: a getPhotos that met no 401 requests the catalog first and once, the
\* album list at most once and only between the catalog and the assets, and
\* the assets at most once and last; the catalog id answered is kept for the
\* whole call and is the one in the photos; and when the catalog answer has
\* no id, getPhotos resolves with the empty list and requests nothing more.
C24_Step ==
    LET k == calls[1]
        k2 == calls'[1]
        eps == Requested(k2)
    IN  (k2.op = "getPhotos" /\ N401(k2) = 0)
        => /\ \/ eps = <<>>
              \/ eps = <<"catalog">>
              \/ eps = <<"catalog", "albums">>
              \/ /\ Len(eps) \in {2, 3}
                 /\ eps[1] = "catalog"
                 /\ eps[Len(eps)] \in {"assets", "albumAssets"}
                 /\ Len(eps) = 3 => eps[2] = "albums"
           /\ (k.op = "getPhotos" /\ k.catalogId # 0)
              => k2.catalogId = k.catalogId
           /\ (k.op = "getPhotos" /\ k.endpoint = "catalog"
               /\ (Receives("dispatched", "200") \/ Receives("dispatched", "200text")))
              => IF k2.resp.kind = "json" /\ k2.resp.id # 0
                 THEN k2.catalogId = k2.resp.id /\ k2.endpoint # "catalog"
                 ELSE k2.pc = "resolved" /\ k2.photos = <<>> /\ eps = <<"catalog">>
           /\ \A i \in 1..Len(k2.photos) : k2.photos[i].catalogId = k2.catalogId
           /\ Len(eps) > 1 => k2.catalogId # 0

C24_CatalogOnce == [][C24_Step]_vars

\* C24 witness: a getPhotos by album name requested catalog, album list and
\* the album's assets, once each, and returned photos.
C24_Witness ==
    LET k == calls[1]
    IN  /\ k.op = "getPhotos" /\ k.pc = "resolved" /\ N401(k) = 0
        /\ Requested(k) = <<"catalog", "albums", "albumAssets">>
        /\ k.catalogId = 1 /\ k.photos # <<>>

\* C25: when a dispatch of makeRequest fails in transport, or is answered
\* with a status other than 2xx and 401, or is answered 401 while no refresh
\* token is held, the call rejects in that step: no refresh call is made, no
\* request is sent again and the token store is as it was; when no 401 came
\* before, that dispatch was the call's only one.
C25_Step ==
    LET k == calls[1]
        k2 == calls'[1]
    IN  (/\ k.op = "makeRequest"
         /\ \/ Receives("dispatched", "net")
            \/ Receives("dispatched", "err")
            \/ (Receives("dispatched", "401") /\ refreshToken = NoToken))
        => /\ k2.pc = "rejected"
           /\ k2.err = (IF Receives("dispatched", "net") THEN "transport"
                        ELSE IF Receives("dispatched", "err") THEN "api"
                        ELSE "expired")
           /\ NRefresh(k2) = NRefresh(k)
           /\ NDispatch(k2) = NDispatch(k)
           /\ N401(k) = 0 => NDispatch(k2) = 1
           /\ UNCHANGED store

C25_OnlyUnauthorizedRetries == [][C25_Step]_vars

\* C25 witness: a makeRequest with an access token and no refresh token was
\* answered 401 and rejected after its one dispatch.
C25_Witness ==
    LET k == calls[1]
    IN  /\ k.op = "makeRequest" /\ k.pc = "rejected" /\ k.err = "expired"
        /\ Evs(k) = <<"401">>
        /\ accessToken # NoToken /\ refreshToken = NoToken
        /\ k.sent = accessToken

\* C26: when the pre-flight refresh of a makeRequest fails, the access token
\* is dropped from memory and, the refresh token being held, one more refresh
\* is attempted with it before anything is dispatched; when that one fails
\* too, the call rejects with the re-authenticate error, nothing dispatched.
\* Before its first dispatch a makeRequest makes at most two refresh calls.
C26_Step ==
    LET k == calls[1]
        k2 == calls'[1]
    IN  /\ (k.op = "makeRequest" /\ Receives("preRefresh", "r-"))
           => /\ accessToken' = NoToken
              /\ refreshToken' = refreshToken
              /\ NDispatch(k2) = NDispatch(k)
              /\ IF refreshToken # NoToken
                 THEN k2.pc = "missRefresh" /\ k2.rt = refreshToken
                 ELSE k2.pc = "rejected" /\ k2.err = "authenticate"
        /\ (k.op = "makeRequest" /\ Receives("missRefresh", "r-"))
           => /\ k2.pc = "rejected" /\ k2.err = "reauthenticate"
              /\ NDispatch(k2) = NDispatch(k)
              /\ accessToken' = NoToken
        /\ (k2.op = "makeRequest" /\ N401(k2) = 0)
           => /\ NRefresh(k2) <= 2
              /\ NDispatch(k2) <= 1

C26_PreflightFailure == [][C26_Step]_vars

\* C26 witness: pre-flight refresh and missing-token refresh both failed and
\* the makeRequest rejected with the re-authenticate error, nothing sent.
C26_Witness ==
    LET k == calls[1]
    IN  /\ k.op = "makeRequest" /\ k.pc = "rejected"
        /\ k.err = "reauthenticate"
        /\ Evs(k) = <<"r-", "r-">> /\ NDispatch(k) = 0 /\ k.sent = NoToken

\* C27: the disconnected state (no token in memory, no tokens file) is left
\* only by the step in which a code exchange succeeds; the answers to a
\* refresh or a request that was in flight when clearTokens ran leave it as
\* it is.
C27_Step ==
    (Disconnected /\ ~(calls[1].op = "exchange" /\ calls[1].pc = "tokenPost"))
    => Disconnected'

C27_DisconnectFinal == [][C27_Step]_vars

\* C28: whenever clearTokens has returned and nothing else has touched the
\* token store since, no access token and no refresh token is in memory and
\* isConnected() is false, also when the tokens file could not be removed.
C28_ClearAlwaysDisconnects ==
    hist.clears > 0
    => (accessToken = NoToken /\ refreshToken = NoToken /\ ~isConnected(CurSvc))

\* The pre-flight refresh that caller c awaited fails in this step.
PreflightFails(c) ==
    /\ calls[c].op = "makeRequest" /\ calls[c].pc = "preRefresh"
    /\ Len(calls'[c].log) > Len(calls[c].log)
    /\ calls'[c].log[Len(calls[c].log) + 1].ev = "r-"

\* C29: with concurrent callers of makeRequest, a caller whose pre-flight
\* refresh fails leaves the access token in memory as it is when that token
\* is fresh (another caller's refresh stored it in the meantime).
C29_Step ==
    \A c \in Calls :
        (/\ PreflightFails(c)
         /\ accessToken # NoToken
         /\ ~KnownStale(tokenExpiresAt, now))
        => accessToken' = accessToken

C29_FreshTokenSurvives == [][C29_Step]_vars

\* This step takes the provider's grant to the code exchange of caller 1 and
\* saves it.
ExchangeGranted ==
    /\ calls[1].op = "exchange" /\ calls[1].pc = "tokenPost"
    /\ calls'[1].pc = "resolved"

\* C30: a successful exchangeCodeForToken stores the granted access token and
\* its expiry, in memory and in the tokens file, and the refresh token stored
\* is the response's, none when the response has none, whatever refresh token
\* was held before; the connection then has the access token only.
C30_Step ==
    ExchangeGranted
    => /\ accessToken' = calls'[1].granted /\ accessToken' = issued'
       /\ issued' = issued + 1
       /\ refreshToken' = calls'[1].newRt
       /\ refreshToken' \in {NoToken, issued'}
       /\ tokenExpiresAt' \in {NoExpiry, now + TokenLifetime}
       /\ tokensFile'.exists
       /\ tokensFile'.accessToken = accessToken'
       /\ tokensFile'.refreshToken = refreshToken'
       /\ tokensFile'.tokenExpiresAt = tokenExpiresAt'
       /\ isConnected(CurSvc)'

C30_ExchangeReplacesRecord == [][C30_Step]_vars

\* C30 witness: a second exchange whose response carried no refresh_token
\* has resolved at a time when the refresh token of the first was saved, and
\* no refresh token is held beside the new access token.
C30_Witness ==
    /\ calls[1].op = "exchange" /\ calls[1].pc = "resolved"
    /\ calls[1].newRt = NoToken
    /\ calls[1].granted = 2 /\ accessToken = 2
    /\ calls[1].prevRt = 1
    /\ refreshToken = NoToken /\ tokensFile.refreshToken = NoToken
    /\ isConnected(CurSvc)

====
